---------------------------- MODULE Spec2Model ----------------------------
(***************************************************************************)
(* A model of bodhi/util.py: the package-introspection and repository      *)
(* metadata helpers (rpm_fileheader, excluded_arch, sha1sum, get_nvr,      *)
(* mkmetadatadir, synchronized, get_repo_tag).                             *)
(*                                                                         *)
(* Each helper is an independent component with its own variables and its  *)
(* own specification (SpecArch, SpecNvr, SpecIo, SpecSync, SpecSeq,        *)
(* SpecConc, SpecTag); the variables of the other components stay at       *)
(* their idle values.                                                      *)
(*                                                                         *)
(* Python strings are sequences of one-character strings.  A Python value  *)
(* that may be a list or a bool is a record [t, b, l] (t: "bool" or        *)
(* "list").  The result of a call is a record whose exc field is "None"    *)
(* when the call returned and the exception's name when it raised.         *)
(***************************************************************************)
EXTENDS Naturals, Integers, Sequences, FiniteSets

VARIABLES
  \* excluded_arch
  hdr, arch, archPc, archResult,
  \* get_nvr
  nvr, nvrPc, nvrResult,
  \* rpm_fileheader, sha1sum
  is_oldrpm, fds, ioCalls, ioLast,
  \* synchronized
  locked, spc, pending,
  \* mkmetadatadir
  fs, passesEexist, active, mpc, mlvl, merr, mcalls, mkdirs,
  \* get_repo_tag
  mash, tagPc, tagResult, tagLog

archVars == <<hdr, arch, archPc, archResult>>
nvrVars  == <<nvr, nvrPc, nvrResult>>
ioVars   == <<is_oldrpm, fds, ioCalls, ioLast>>
syncVars == <<locked, spc, pending>>
mkVars   == <<fs, passesEexist, active, mpc, mlvl, merr, mcalls, mkdirs>>
tagVars  == <<mash, tagPc, tagResult, tagLog>>
vars     == <<archVars, nvrVars, ioVars, syncVars, mkVars, tagVars>>

\* what each component leaves alone
ArchRest == <<nvrVars, ioVars, syncVars, mkVars, tagVars>>
NvrRest  == <<archVars, ioVars, syncVars, mkVars, tagVars>>
IoRest   == <<archVars, nvrVars, syncVars, mkVars, tagVars>>
SyncRest == <<archVars, nvrVars, ioVars, mkVars, tagVars>>
MkRest   == <<archVars, nvrVars, ioVars, syncVars, tagVars>>
TagRest  == <<archVars, nvrVars, ioVars, syncVars, mkVars>>

---------------------------------------------------------------------------
(* Bounds *)

\* number of architecture names
NArch == 3
\* longest name-version-release string
MaxNvrLen == 5
\* calls of rpm_fileheader and sha1sum in one run
MaxIoCalls == 3
\* threads calling a synchronized function
NThreads == 3
\* path segments of the metadata directory
Depth == 3
\* callers of mkmetadatadir, and calls each makes
MaxCallers == 2
MaxMkCalls == 3
\* lines of a mash configuration, and characters after "tag ="
MaxLines == 2
MaxValueLen == 3

---------------------------------------------------------------------------
(* Python values *)

PyBool(b) == [t |-> "bool", b |-> b, l |-> {}]
PyList(l) == [t |-> "list", b |-> FALSE, l |-> l]

\* truth value of a Python object: an empty list is false
Truthy(x) == IF x.t = "list" THEN x.l # {} ELSE x.b

\* x and y, x or y: the operand that decided, not a bool
PyAnd(x, y) == IF Truthy(x) THEN y ELSE x
PyOr(x, y)  == IF Truthy(x) THEN x ELSE y

---------------------------------------------------------------------------
(* excluded_arch *)

Archs == 1..NArch

Headers == [excludearch : SUBSET Archs, exclusivearch : SUBSET Archs]

\* the same expression without the "not": a package exclusive to an
\* architecture is excluded from it
excluded_arch_in(rpmheader, a) ==
  LET excluded  == PyList(rpmheader.excludearch)
      exclusive == PyList(rpmheader.exclusivearch)
  IN  PyOr(PyAnd(excluded, PyBool(a \in excluded.l)),
           PyAnd(exclusive, PyBool(a \in exclusive.l)))

\* the same expression testing exclusive first and stopping there when
\* it is set
excluded_arch_exclusive_wins(rpmheader, a) ==
  LET excluded  == PyList(rpmheader.excludearch)
      exclusive == PyList(rpmheader.exclusivearch)
  IN  IF Truthy(exclusive)
        THEN PyBool(a \notin exclusive.l)
        ELSE PyAnd(excluded, PyBool(a \in excluded.l))

excluded_arch(rpmheader, a) ==
  LET excluded  == PyList(rpmheader.excludearch)
      exclusive == PyList(rpmheader.exclusivearch)
  IN  PyOr(PyAnd(excluded, PyBool(a \in excluded.l)),
           PyAnd(exclusive, PyBool(a \notin exclusive.l)))

ArchIdle ==
  /\ hdr = [excludearch |-> {}, exclusivearch |-> {}]
  /\ arch = 1
  /\ archPc = "idle"
  /\ archResult = PyBool(FALSE)

ArchInit ==
  /\ hdr \in Headers
  /\ arch \in Archs
  /\ archPc = "call"
  /\ archResult = PyBool(FALSE)

ExcludedArch ==
  /\ archPc = "call"
  /\ archResult' = excluded_arch(hdr, arch)
  /\ archPc' = "done"
  /\ UNCHANGED <<hdr, arch>>
  /\ UNCHANGED ArchRest

ArchNext == ExcludedArch

---------------------------------------------------------------------------
(* get_nvr *)

Chars == {"a", "1", "-"}

Strings(n) == UNION {[1..k -> Chars] : k \in 0..n}

Hyphens(s) == {i \in DOMAIN s : s[i] = "-"}

SetMin(S) == CHOOSE i \in S : \A j \in S : i <= j
SetMax(S) == CHOOSE i \in S : \A j \in S : j <= i

\* s.split('-'): always at least one field, fields may be empty
RECURSIVE Split(_)
Split(s) ==
  IF Hyphens(s) = {}
    THEN <<s>>
    ELSE LET i == SetMin(Hyphens(s))
         IN  <<SubSeq(s, 1, i - 1)>> \o Split(SubSeq(s, i + 1, Len(s)))

\* '-'.join(xs)
RECURSIVE Join(_)
Join(xs) ==
  IF xs = <<>> THEN <<>>
  ELSE IF Len(xs) = 1 THEN xs[1]
  ELSE xs[1] \o <<"-">> \o Join(Tail(xs))

Returned(v) == [exc |-> "None", val |-> v]
Raised(e)   == [exc |-> e, val |-> <<>>]

\* the fields taken from the left: x[0], x[1] and the joined rest
get_nvr_left(s) ==
  LET x == Split(s)
      n == Len(x)
  IN  IF n < 2
        THEN Raised("IndexError")
        ELSE Returned(<<x[1], x[2], Join(SubSeq(x, 3, n))>>)

\* x[:-2] is empty when x has fewer than three fields; x[-2] raises
\* IndexError when x has one field
get_nvr(s) ==
  LET x == Split(s)
      n == Len(x)
  IN  IF n < 2
        THEN Raised("IndexError")
        ELSE Returned(<<Join(SubSeq(x, 1, n - 2)), x[n - 1], x[n]>>)

NvrIdle ==
  /\ nvr = <<>>
  /\ nvrPc = "idle"
  /\ nvrResult = Returned(<<>>)

NvrInit ==
  /\ nvr \in Strings(MaxNvrLen)
  /\ nvrPc = "call"
  /\ nvrResult = Returned(<<>>)

GetNvr ==
  /\ nvrPc = "call"
  /\ nvrResult' = get_nvr(nvr)
  /\ nvrPc' = "done"
  /\ UNCHANGED nvr
  /\ UNCHANGED NvrRest

NvrNext == GetNvr

---------------------------------------------------------------------------
(* rpm_fileheader, sha1sum *)

\* what a path names: nothing, a package, a file that is no package
FileKinds == {"missing", "rpm", "other"}

\* what the rpm bindings raise when they cannot read a header from the
\* descriptor; rpm.error is the bindings' own exception class, which is
\* neither an OSError nor a TypeError
LibErrors == {"TypeError", "OSError", "rpm.error"}

\* os.open and open return the lowest descriptor not in use
NewFd(open) ==
  SetMin({n \in 3..(3 + Cardinality(open)) : \A f \in open : f.n # n})

\* the outcome of a call: what the caller sees, and the descriptors left open
Outcome(r, open) == [res |-> r, fds |-> open]

\* the two header-reading calls of the bindings, on a descriptor of a
\* package: the legacy one returns a pair, the transaction one the header
headerFromPackage(kind) == <<<<"header", kind>>, <<"isSource">>>>
hdrFromFdno(kind)       == <<"header", kind>>

\* lines 46-57.  os.open failing raises OSError inside the try.  A failure
\* of headerFromPackage(fd)[0] or ts.hdrFromFdno(fd) leaves the try by the
\* except clause when it is an OSError or a TypeError and propagates
\* otherwise; on both ways os.close(fd) on line 56 is not reached.
rpm_fileheader(open, old, kind, liberr) ==
  IF kind = "missing"
    THEN Outcome(Raised("RPMNotFound"), open)
    ELSE LET fd == [n |-> NewFd(open), kind |-> "os"]
         IN  IF kind = "rpm"
               THEN Outcome(Returned(IF old THEN headerFromPackage(kind)[1]
                                            ELSE hdrFromFdno(kind)), open)
               ELSE IF liberr \in {"OSError", "TypeError"}
                      THEN Outcome(Raised("RPMNotFound"), open \cup {fd})
                      ELSE Outcome(Raised(liberr), open \cup {fd})

\* lines 69-74.  open failing raises IOError; fd.read() failing raises
\* IOError past fd.close().
sha1sum(open, kind, readOK) ==
  IF kind = "missing"
    THEN Outcome(Raised("IOError"), open)
    ELSE LET fd == [n |-> NewFd(open), kind |-> "file"]
         IN  IF readOK
               THEN Outcome(Returned(<<"sha1", kind>>), open)
               ELSE Outcome(Raised("IOError"), open \cup {fd})

IoIdle ==
  /\ is_oldrpm = FALSE
  /\ fds = {}
  /\ ioCalls = 0
  /\ ioLast = [fn |-> "none", kind |-> "missing", res |-> Returned(<<>>)]

IoInit ==
  /\ is_oldrpm \in BOOLEAN
  /\ fds = {}
  /\ ioCalls = 0
  /\ ioLast = [fn |-> "none", kind |-> "missing", res |-> Returned(<<>>)]

RpmFileheader ==
  /\ ioCalls < MaxIoCalls
  /\ \E kind \in FileKinds, liberr \in LibErrors :
       LET out == rpm_fileheader(fds, is_oldrpm, kind, liberr)
       IN  /\ fds' = out.fds
           /\ ioLast' = [fn |-> "rpm_fileheader", kind |-> kind, res |-> out.res]
  /\ ioCalls' = ioCalls + 1
  /\ UNCHANGED is_oldrpm
  /\ UNCHANGED IoRest

Sha1sum ==
  /\ ioCalls < MaxIoCalls
  /\ \E kind \in FileKinds, readOK \in BOOLEAN :
       LET out == sha1sum(fds, kind, readOK)
       IN  /\ fds' = out.fds
           /\ ioLast' = [fn |-> "sha1sum", kind |-> kind, res |-> out.res]
  /\ ioCalls' = ioCalls + 1
  /\ UNCHANGED is_oldrpm
  /\ UNCHANGED IoRest

\* a file object nothing refers to any more is closed when the interpreter
\* reclaims it, at some moment after the call that dropped it; a
\* descriptor from os.open is a plain integer and is never reclaimed
FileObjectReclaimed ==
  /\ \E f \in fds : f.kind = "file" /\ fds' = fds \ {f}
  /\ UNCHANGED <<is_oldrpm, ioCalls, ioLast>>
  /\ UNCHANGED IoRest

IoNext ==
  \/ RpmFileheader
  \/ Sha1sum
  \/ FileObjectReclaimed

---------------------------------------------------------------------------
(* synchronized *)

Threads == 1..NThreads

SyncIdle ==
  /\ locked = FALSE
  /\ spc = [t \in Threads |-> "off"]
  /\ pending = [t \in Threads |-> "none"]

SyncInit ==
  /\ locked = FALSE
  /\ spc = [t \in Threads |-> "idle"]
  /\ pending = [t \in Threads |-> "none"]

\* a thread calls the wrapped function: new(*args, **kw) is entered
SyncCall(t) ==
  /\ spc[t] = "idle"
  /\ spc' = [spc EXCEPT ![t] = "acquire"]
  /\ UNCHANGED <<locked, pending>>
  /\ UNCHANGED SyncRest

\* line 96: lock.acquire() blocks while the lock is held
LockAcquire(t) ==
  /\ spc[t] = "acquire"
  /\ ~locked
  /\ locked' = TRUE
  /\ spc' = [spc EXCEPT ![t] = "body"]
  /\ UNCHANGED pending
  /\ UNCHANGED SyncRest

\* line 98: f(*args, **kw) returns; the finally clause runs next
BodyReturns(t) ==
  /\ spc[t] = "body"
  /\ spc' = [spc EXCEPT ![t] = "finally"]
  /\ pending' = [pending EXCEPT ![t] = "return"]
  /\ UNCHANGED locked
  /\ UNCHANGED SyncRest

\* line 98: f(*args, **kw) raises; the finally clause runs next
BodyRaises(t) ==
  /\ spc[t] = "body"
  /\ spc' = [spc EXCEPT ![t] = "finally"]
  /\ pending' = [pending EXCEPT ![t] = "raise"]
  /\ UNCHANGED locked
  /\ UNCHANGED SyncRest

\* the release written after the call instead of in a finally clause: a
\* body that raises skips it
LockReleaseAfterCall(t) ==
  /\ spc[t] = "finally"
  /\ locked' = IF pending[t] = "return" THEN FALSE ELSE locked
  /\ spc' = [spc EXCEPT ![t] = IF pending[t] = "return" THEN "returned"
                                                         ELSE "raised"]
  /\ UNCHANGED pending
  /\ UNCHANGED SyncRest

\* lines 99-100: lock.release(), then the return or the exception goes on
LockRelease(t) ==
  /\ spc[t] = "finally"
  /\ locked' = FALSE
  /\ spc' = [spc EXCEPT ![t] = IF pending[t] = "return" THEN "returned"
                                                         ELSE "raised"]
  /\ UNCHANGED pending
  /\ UNCHANGED SyncRest

SyncNext ==
  \E t \in Threads :
    \/ SyncCall(t)
    \/ LockAcquire(t)
    \/ BodyReturns(t)
    \/ BodyRaises(t)
    \/ LockRelease(t)

---------------------------------------------------------------------------
(* mkmetadatadir *)

\* The directory is a path of Depth segments below a root that exists;
\* fs[i] says what the first i segments name.
Levels == 1..Depth
Callers == 1..MaxCallers

FsStates ==
  {f \in [Levels -> {"absent", "dir", "file"}] :
     \A i \in Levels : (i > 1 /\ f[i] # "absent") => f[i - 1] = "dir"}

\* isdir(dir)
isdir(f) == f[Depth] = "dir"

\* path.exists(head) for the path of i segments; the root exists
HeadExists(f, i) == i = 1 \/ f[i - 1] # "absent"

\* what mkdir of the path of i segments answers
MkdirErrno(f, i) ==
  IF f[i] # "absent" THEN "EEXIST"
  ELSE IF i > 1 /\ f[i - 1] = "file" THEN "ENOTDIR"
  ELSE IF i > 1 /\ f[i - 1] = "absent" THEN "ENOENT"
  ELSE "OK"

MkIdle ==
  /\ fs = [i \in Levels |-> "absent"]
  /\ passesEexist = FALSE
  /\ active = {}
  /\ mpc = [c \in Callers |-> "off"]
  /\ mlvl = [c \in Callers |-> 0]
  /\ merr = [c \in Callers |-> "None"]
  /\ mcalls = [c \in Callers |-> 0]
  /\ mkdirs = 0

\* passesEexist: whether the interpreter's os.makedirs passes over an
\* EEXIST from the makedirs of a head (later releases do, earlier do not)
MkInit(who) ==
  /\ fs \in FsStates
  /\ passesEexist \in BOOLEAN
  /\ active = who
  /\ mpc = [c \in Callers |-> IF c \in who THEN "idle" ELSE "off"]
  /\ mlvl = [c \in Callers |-> 0]
  /\ merr = [c \in Callers |-> "None"]
  /\ mcalls = [c \in Callers |-> 0]
  /\ mkdirs = 0

\* line 81: a caller enters mkmetadatadir(dir)
MkCall(c) ==
  /\ c \in active
  /\ mpc[c] \in {"idle", "returned", "raised"}
  /\ mcalls[c] < MaxMkCalls
  /\ mpc' = [mpc EXCEPT ![c] = "isdir"]
  /\ merr' = [merr EXCEPT ![c] = "None"]
  /\ mcalls' = [mcalls EXCEPT ![c] = @ + 1]
  /\ UNCHANGED <<fs, passesEexist, active, mlvl, mkdirs>>
  /\ UNCHANGED MkRest

\* the test dropped: os.makedirs(dir) on every call
CheckIsdirAlwaysCreate(c) ==
  /\ c \in active
  /\ mpc[c] = "isdir"
  /\ mpc' = [mpc EXCEPT ![c] = "descend"]
  /\ mlvl' = [mlvl EXCEPT ![c] = Depth]
  /\ UNCHANGED <<fs, passesEexist, active, merr, mcalls, mkdirs>>
  /\ UNCHANGED MkRest

\* line 87: if not isdir(dir): os.makedirs(dir) is entered for the whole
\* path, otherwise the indexer is next
CheckIsdir(c) ==
  /\ c \in active
  /\ mpc[c] = "isdir"
  /\ IF isdir(fs)
       THEN /\ mpc' = [mpc EXCEPT ![c] = "indexer"]
            /\ UNCHANGED mlvl
       ELSE /\ mpc' = [mpc EXCEPT ![c] = "descend"]
            /\ mlvl' = [mlvl EXCEPT ![c] = Depth]
  /\ UNCHANGED <<fs, passesEexist, active, merr, mcalls, mkdirs>>
  /\ UNCHANGED MkRest

\* line 88, inside os.makedirs(name) for the path of mlvl[c] segments:
\* when its head does not exist, makedirs(head) is entered first
MakedirsDescend(c) ==
  /\ c \in active
  /\ mpc[c] = "descend"
  /\ IF HeadExists(fs, mlvl[c])
       THEN /\ mpc' = [mpc EXCEPT ![c] = "mkdir"]
            /\ UNCHANGED mlvl
       ELSE /\ mlvl' = [mlvl EXCEPT ![c] = @ - 1]
            /\ UNCHANGED mpc
  /\ UNCHANGED <<fs, passesEexist, active, merr, mcalls, mkdirs>>
  /\ UNCHANGED MkRest

\* line 88, inside os.makedirs: mkdir(name) for the path of mlvl[c]
\* segments.  An EEXIST from the makedirs of a head is passed over by the
\* frame that called it (when the interpreter's makedirs does that), which
\* goes on to its own mkdir; any other error, and any error of the
\* outermost mkdir, leaves mkmetadatadir as OSError.
Mkdir(c) ==
  /\ c \in active
  /\ mpc[c] = "mkdir"
  /\ LET i  == mlvl[c]
         no == MkdirErrno(fs, i)
     IN  \/ /\ no = "OK"
            /\ fs' = [fs EXCEPT ![i] = "dir"]
            /\ mkdirs' = mkdirs + 1
            /\ IF i = Depth
                 THEN /\ mpc' = [mpc EXCEPT ![c] = "indexer"]
                      /\ mlvl' = [mlvl EXCEPT ![c] = 0]
                 ELSE /\ mlvl' = [mlvl EXCEPT ![c] = i + 1]
                      /\ UNCHANGED mpc
            /\ UNCHANGED merr
         \/ /\ no = "EEXIST"
            /\ i < Depth
            /\ passesEexist
            /\ mlvl' = [mlvl EXCEPT ![c] = i + 1]
            /\ UNCHANGED <<fs, mpc, merr, mkdirs>>
         \/ /\ no # "OK"
            /\ no = "EEXIST" => (i = Depth \/ ~passesEexist)
            /\ mpc' = [mpc EXCEPT ![c] = "raised"]
            /\ merr' = [merr EXCEPT ![c] = "OSError"]
            /\ mlvl' = [mlvl EXCEPT ![c] = 0]
            /\ UNCHANGED <<fs, mkdirs>>
  /\ UNCHANGED <<passesEexist, active, mcalls>>
  /\ UNCHANGED MkRest

\* lines 89-90: genpkgmetadata.main([...]) returns, or fails and its error
\* leaves mkmetadatadir
Indexer(c) ==
  /\ c \in active
  /\ mpc[c] = "indexer"
  /\ \/ /\ mpc' = [mpc EXCEPT ![c] = "returned"]
        /\ UNCHANGED merr
     \/ /\ mpc' = [mpc EXCEPT ![c] = "raised"]
        /\ merr' = [merr EXCEPT ![c] = "IndexerError"]
  /\ UNCHANGED <<fs, passesEexist, active, mlvl, mcalls, mkdirs>>
  /\ UNCHANGED MkRest

MkNext ==
  \E c \in Callers :
    \/ MkCall(c)
    \/ CheckIsdir(c)
    \/ MakedirsDescend(c)
    \/ Mkdir(c)
    \/ Indexer(c)

---------------------------------------------------------------------------
(* get_repo_tag *)

Whitespace == {" ", "\n"}

TagPrefix == <<"t", "a", "g", " ", "=">>

\* how a line of the configuration starts: the directive, the directive
\* without its space, a comment
LineStarts == {TagPrefix, <<"t", "a", "g", "=">>, <<"#">>}

ValueChars == {" ", "x"}

\* the lines readlines() gives, each with its line end
Lines ==
  {p \o r \o <<"\n">> :
     p \in LineStarts,
     r \in UNION {[1..k -> ValueChars] : k \in 0..MaxValueLen}}

Configs == UNION {[1..k -> Lines] : k \in 0..MaxLines}

\* what <dirname(mash_conf)>/<basename(repo)>.mash names: nothing, a
\* directory, a file that cannot be opened for reading, a file
MashStates ==
  {[kind |-> "absent", lines |-> <<>>], [kind |-> "dir", lines |-> <<>>],
   [kind |-> "unreadable", lines |-> <<>>]}
    \cup {[kind |-> "file", lines |-> ls] : ls \in Configs}

\* x.startswith('tag =')
StartsWithTag(x) ==
  Len(x) >= Len(TagPrefix) /\ SubSeq(x, 1, Len(TagPrefix)) = TagPrefix

\* s.split(): the maximal runs of characters that are not whitespace
RECURSIVE PySplit(_)
PySplit(s) ==
  IF s = <<>> THEN <<>>
  ELSE IF Head(s) \in Whitespace THEN PySplit(Tail(s))
  ELSE LET ws == {i \in DOMAIN s : s[i] \in Whitespace}
           n  == IF ws = {} THEN Len(s) ELSE SetMin(ws) - 1
       IN  <<SubSeq(s, 1, n)>> \o PySplit(SubSeq(s, n + 1, Len(s)))

PyNone == <<"None">>

\* lines 188-195: the file's lines filtered by the prefix, the first of
\* them split on whitespace, its last word returned; [0] of an empty list
\* raises IndexError; file() raises IOError when the file cannot be
\* opened.  Without a file one error is logged and the function ends
\* without a return statement.
get_repo_tag(m) ==
  IF m.kind = "unreadable"
    THEN [res |-> Raised("IOError"), logged |-> 0]
  ELSE IF m.kind = "file"
    THEN LET found == SelectSeq(m.lines, StartsWithTag)
         IN  IF found = <<>>
               THEN [res |-> Raised("IndexError"), logged |-> 0]
               ELSE LET words == PySplit(found[1])
                    IN  [res |-> Returned(words[Len(words)]), logged |-> 0]
    ELSE [res |-> Returned(PyNone), logged |-> 1]

TagIdle ==
  /\ mash = [kind |-> "absent", lines |-> <<>>]
  /\ tagPc = "idle"
  /\ tagResult = Returned(PyNone)
  /\ tagLog = 0

TagInit ==
  /\ mash \in MashStates
  /\ tagPc = "call"
  /\ tagResult = Returned(PyNone)
  /\ tagLog = 0

GetRepoTag ==
  /\ tagPc = "call"
  /\ LET out == get_repo_tag(mash)
     IN  /\ tagResult' = out.res
         /\ tagLog' = tagLog + out.logged
  /\ tagPc' = "done"
  /\ UNCHANGED mash
  /\ UNCHANGED TagRest

TagNext == GetRepoTag

---------------------------------------------------------------------------
(* Specifications *)

InitArch == ArchInit /\ NvrIdle /\ IoIdle /\ SyncIdle /\ MkIdle /\ TagIdle
SpecArch == InitArch /\ [][ArchNext]_vars

InitNvr == NvrInit /\ ArchIdle /\ IoIdle /\ SyncIdle /\ MkIdle /\ TagIdle
SpecNvr == InitNvr /\ [][NvrNext]_vars

InitIo == IoInit /\ ArchIdle /\ NvrIdle /\ SyncIdle /\ MkIdle /\ TagIdle
SpecIo == InitIo /\ [][IoNext]_vars

InitSync == SyncInit /\ ArchIdle /\ NvrIdle /\ IoIdle /\ MkIdle /\ TagIdle
SpecSync == InitSync /\ [][SyncNext]_vars

\* one caller, its calls one after another
InitSeq ==
  MkInit({1}) /\ ArchIdle /\ NvrIdle /\ IoIdle /\ SyncIdle /\ TagIdle
SpecSeq == InitSeq /\ [][MkNext]_vars

\* several callers on the same directory, nothing serialising them
InitConc ==
  MkInit(Callers) /\ ArchIdle /\ NvrIdle /\ IoIdle /\ SyncIdle /\ TagIdle
SpecConc == InitConc /\ [][MkNext]_vars

InitTag == TagInit /\ ArchIdle /\ NvrIdle /\ IoIdle /\ SyncIdle /\ MkIdle
SpecTag == InitTag /\ [][TagNext]_vars

---------------------------------------------------------------------------
(* Claims: excluded_arch *)

\* C1: excluded_arch reports the package as excluded iff arch is in
\* excludeArch, or exclusiveArch is non-empty and arch is not in it; with
\* both sets empty no architecture is excluded.
C1_ExclusionRule ==
  archPc = "done" =>
    /\ Truthy(archResult) <=>
         \/ arch \in hdr.excludearch
         \/ hdr.exclusivearch # {} /\ arch \notin hdr.exclusivearch
    /\ (hdr.excludearch = {} /\ hdr.exclusivearch = {}) => ~Truthy(archResult)

\* an architecture outside a non-empty exclusiveArch, not listed in
\* excludeArch, was reported excluded
C1_Witness ==
  /\ archPc = "done"
  /\ hdr.exclusivearch # {}
  /\ arch \notin hdr.exclusivearch
  /\ arch \notin hdr.excludearch
  /\ Truthy(archResult)

NotExcluded(h) == {a \in Archs : ~Truthy(excluded_arch(h, a))}

\* C2 as stated: with a non-empty exclusiveArch the architectures not
\* excluded are exactly exclusiveArch, whatever excludeArch holds.
C2_ExactlyExclusive ==
  (archPc = "done" /\ hdr.exclusivearch # {}) =>
    /\ NotExcluded(hdr) = hdr.exclusivearch
    /\ ~Truthy(archResult) <=> arch \in hdr.exclusivearch

\* C2 amended: with a non-empty exclusiveArch the architectures not
\* excluded are exactly those of exclusiveArch that excludeArch does not
\* list.
C2_ExclusiveMinusExcluded ==
  (archPc = "done" /\ hdr.exclusivearch # {}) =>
    /\ NotExcluded(hdr) = hdr.exclusivearch \ hdr.excludearch
    /\ ~Truthy(archResult) <=> arch \in hdr.exclusivearch \ hdr.excludearch

\* an architecture listed in both sets was reported excluded
C2_Witness ==
  /\ archPc = "done"
  /\ arch \in hdr.exclusivearch
  /\ arch \in hdr.excludearch
  /\ Truthy(archResult)

---------------------------------------------------------------------------
(* Claims: rpm_fileheader, sha1sum *)

\* C3: after any sequence of rpm_fileheader and sha1sum calls, returning
\* or raising, no descriptor opened by them is still open: every call has
\* closed what it opened by the time it exits.
C3_NoDescriptorLeft == fds = {}

\* C4: rpm_fileheader raises RPMNotFound both when the path cannot be
\* opened and when the library cannot parse a header, under either
\* strategy; no other error escapes for a missing or non-package file, and
\* a header is returned only when open and parse both succeed.
C4_UniformNotFound ==
  ioLast.fn = "rpm_fileheader" =>
    /\ ioLast.kind \in {"missing", "other"} => ioLast.res.exc = "RPMNotFound"
    /\ ioLast.res.exc = "None" => ioLast.kind = "rpm"

---------------------------------------------------------------------------
(* Claims: synchronized *)

InBody(t) == spc[t] \in {"body", "finally"}

\* C5: threads calling functions wrapped with the same lock, in any
\* interleaving: the lock is held exactly while a wrapped body is between
\* its start and the end of its finally clause, at most one body is
\* executing at any time, and once every call has returned or raised the
\* lock is free (so a body that raised blocks no later caller).
C5_MutualExclusion ==
  /\ Cardinality({t \in Threads : InBody(t)}) <= 1
  /\ locked <=> \E t \in Threads : InBody(t)
  /\ (\A t \in Threads : spc[t] \in {"returned", "raised"}) => ~locked

\* a thread's body raised, and a later caller is inside its own body
C5_Witness ==
  \E t, u \in Threads :
    /\ spc[t] = "raised"
    /\ spc[u] = "body"
    /\ \E w \in Threads : spc[w] = "acquire"

---------------------------------------------------------------------------
(* Claims: mkmetadatadir *)

\* the path and its parents are absent or directories; the model never
\* creates or removes a file, so this holds of a run or of none of it
NoFiles == \A i \in Levels : fs[i] # "file"

AllDirs == \A i \in Levels : fs[i] = "dir"

\* C6: calls made one after another on a path that is absent (with any
\* number of missing parents) or a directory: the directory and all its
\* parents exist whenever a call is at the indexer, the creation step runs
\* only while the directory is absent, and no call raises unless the
\* indexer fails.
C6_SequentialCalls ==
  NoFiles =>
    \A c \in active :
      /\ mpc[c] = "indexer" => AllDirs
      /\ mpc[c] \in {"descend", "mkdir"} => fs[Depth] = "absent"
      /\ merr[c] # "OSError"
      /\ (mpc[c] = "raised") => merr[c] = "IndexerError"

\* a second call returned after the first created the directory and all
\* its parents
C6_Witness ==
  /\ active = {1}
  /\ mcalls[1] = 2
  /\ mpc[1] = "returned"
  /\ mkdirs = Depth
  /\ AllDirs

\* C10: two callers running mkmetadatadir concurrently on the same absent
\* directory both get past the creation step without an error, under
\* every interleaving of their checks and creations.
C10_ConcurrentCreation ==
  NoFiles => \A c \in active : merr[c] # "OSError"

---------------------------------------------------------------------------
(* Claims: get_repo_tag *)

\* s without its leading and trailing whitespace
Strip(s) ==
  LET ink == {i \in DOMAIN s : s[i] \notin Whitespace}
  IN  IF ink = {} THEN <<>> ELSE SubSeq(s, SetMin(ink), SetMax(ink))

\* the text that follows "tag =" on a line starting with it
ValueAfterTag(x) == Strip(SubSeq(x, Len(TagPrefix) + 1, Len(x)))

TagLines == {i \in DOMAIN mash.lines : StartsWithTag(mash.lines[i])}

\* C8: when the configuration file exists and holds a line starting with
\* "tag =", get_repo_tag returns the value that follows "tag =" on the
\* first such line, also when no space follows the "=" and when the value
\* holds several words.  (Stated for lines that give a value.)
C8_ValueAfterTag ==
  (tagPc = "done" /\ mash.kind = "file" /\ TagLines # {}) =>
    LET first == mash.lines[SetMin(TagLines)]
    IN  ValueAfterTag(first) # <<>> =>
          tagResult = Returned(ValueAfterTag(first))

\* C9: get_repo_tag never raises: without a configuration file it logs
\* one error and returns None, and whatever the file holds no call ends in
\* an exception.
C9_NeverRaises ==
  tagPc = "done" =>
    /\ tagResult.exc = "None"
    /\ mash.kind \in {"absent", "dir"} =>
         (tagResult = Returned(PyNone) /\ tagLog = 1)

---------------------------------------------------------------------------
(* Claims: get_nvr *)

Concat3(v) == v[1] \o <<"-">> \o v[2] \o <<"-">> \o v[3]

\* C7: for a string with at least three hyphen-separated fields get_nvr
\* returns name, version, release: release is the text after the last
\* hyphen, version the text between the last two hyphens, name all that
\* precedes; version and release hold no hyphen, and name-version-release
\* is the original string.
C7_NvrRoundTrip ==
  (nvrPc = "done" /\ Cardinality(Hyphens(nvr)) >= 2) =>
    LET l == SetMax(Hyphens(nvr))
        k == SetMax(Hyphens(nvr) \ {l})
        v == nvrResult.val
    IN  /\ nvrResult.exc = "None"
        /\ Len(v) = 3
        /\ v[3] = SubSeq(nvr, l + 1, Len(nvr))
        /\ v[2] = SubSeq(nvr, k + 1, l - 1)
        /\ v[1] = SubSeq(nvr, 1, k - 1)
        /\ Hyphens(v[2]) = {}
        /\ Hyphens(v[3]) = {}
        /\ Concat3(v) = nvr

\* a name that itself holds a hyphen was decomposed
C7_Witness ==
  /\ nvrPc = "done"
  /\ Cardinality(Hyphens(nvr)) >= 3
  /\ nvrResult.exc = "None"
  /\ Hyphens(nvrResult.val[1]) # {}
  /\ nvrResult.val[2] # <<>>

=============================================================================
